---- MODULE Spec2Model ----
(***************************************************************************)
(* SmartSpend expense tracker (src/app.py): the SQLite database file       *)
(* expenses.db with its two tables, and the storage functions that the     *)
(* Streamlit pages call.  Every function opens its own connection, runs    *)
(* one statement or transaction, commits and closes.  Spec takes each     *)
(* call of the pages as one atomic step on a database that init_db() has   *)
(* set up, SpecSummary does the same for the summary, SpecUi runs the      *)
(* pages of two browser sessions, and SpecConc lets the calls of two       *)
(* sessions, init_db() at module load among them, interleave statement by  *)
(* statement.                                                              *)
(*                                                                         *)
(* Values.  A nullable cell / an Optional Python value is <<>> (NULL,      *)
(* None) or <<v>>.  A category or a description is the sequence of its     *)
(* code points, every other text a string.  The created_at columns hold    *)
(* the wall clock of the insert and are read by no function: left out.     *)
(***************************************************************************)
EXTENDS Integers, Sequences, FiniteSets, TLC

VARIABLES
    db,     \* the contents of expenses.db
    last,   \* the latest call: function, arguments, result, database before it
    removed, \* the <<expense_id, user_id>> whose row a delete_expense removed
    ui,     \* st.session_state of every browser session
    event,  \* the latest script run: session, widget event, storage calls made
    calls,  \* the storage call each session has in progress, step by step
    lock    \* the session whose connection holds the database write lock

vars == <<db, last, removed, ui, event, calls, lock>>

\* browser sessions, each running the script on its own
Sessions == {"s1", "s2"}

(* ---------------- bounds ---------------- *)

\* largest number of user ids ever handed out
MaxUsers == 2

\* largest number of expense ids ever handed out
MaxExpenses == 3

\* largest number of expenses stored before the summary is taken
MaxSummaryRows == 3

\* largest number of expenses saved through the add-expense page
MaxUiExpenses == 1

\* largest number of user ids handed out while calls interleave
MaxConcUsers == 2

\* largest number of expense ids handed out while calls interleave
MaxConcExpenses == 2

(* ---------------- values ---------------- *)

NULL == <<>>

None == <<>>

\* id of the "default user" that init_db gives ownerless rows to
DefaultUserId == 1

(* ---------------- text helpers ---------------- *)

\* A str that the code strips or sorts (category, description) is the
\* sequence of its code points, so that every character of Unicode has a
\* value; all other texts (names, passwords, dates) are strings.

\* the characters of ASCII from U+0020 to U+005F, and from U+0061 to U+007E
\* (U+0060 cannot be written in a string here)
Upper == " !\"#$%&'()*+,-./0123456789:;<=>?@ABCDEFGHIJKLMNOPQRSTUVWXYZ[\\]^_"

Lower == "abcdefghijklmnopqrstuvwxyz{|}~"

IndexIn(alphabet, c) ==
    IF \E i \in 1..Len(alphabet) : SubSeq(alphabet, i, i) = c
    THEN CHOOSE i \in 1..Len(alphabet) : SubSeq(alphabet, i, i) = c
    ELSE 0

\* ord(c) for a character of these
CodePoint(c) ==
    IF IndexIn(Upper, c) > 0 THEN 31 + IndexIn(Upper, c)
    ELSE 96 + IndexIn(Lower, c)

\* the code points of a text written in printable ASCII
Chars(s) == [i \in 1..Len(s) |-> CodePoint(SubSeq(s, i, i))]

\* the code points c with chr(c).isspace(), which str.strip() with no
\* argument removes: \t \n \v \f \r, U+001C..U+001F, space, U+0085, U+00A0,
\* U+1680, U+2000..U+200A, U+2028, U+2029, U+202F, U+205F, U+3000
Whitespace ==
    (9..13) \cup (28..32) \cup {133, 160, 5760} \cup (8192..8202)
        \cup {8232, 8233, 8239, 8287, 12288}

RECURSIVE lstrip(_)
lstrip(s) ==
    IF Len(s) = 0 THEN s
    ELSE IF s[1] \in Whitespace THEN lstrip(SubSeq(s, 2, Len(s)))
    ELSE s

RECURSIVE rstrip(_)
rstrip(s) ==
    IF Len(s) = 0 THEN s
    ELSE IF s[Len(s)] \in Whitespace
         THEN rstrip(SubSeq(s, 1, Len(s) - 1))
    ELSE s

\* str.strip()
strip(s) == rstrip(lstrip(s))

Digits == <<"0", "1", "2", "3", "4", "5", "6", "7", "8", "9">>

DigitChar(n) == Digits[n + 1]

DigitVal(c) == CHOOSE n \in 0..9 : Digits[n + 1] = c

\* code point of the characters that occur in an ISO date
Ord(c) == IF c = "-" THEN 45 ELSE 48 + DigitVal(c)

Pad2(n) == DigitChar((n \div 10) % 10) \o DigitChar(n % 10)

Pad4(n) == DigitChar((n \div 1000) % 10) \o DigitChar((n \div 100) % 10) \o Pad2(n % 100)

\* date.isoformat(): a date <<y, m, d>> as the text YYYY-MM-DD
isoformat(d) == Pad4(d[1]) \o "-" \o Pad2(d[2]) \o "-" \o Pad2(d[3])

RECURSIVE ParseInt(_)
ParseInt(s) ==
    IF Len(s) = 0 THEN 0
    ELSE 10 * ParseInt(SubSeq(s, 1, Len(s) - 1)) + DigitVal(SubSeq(s, Len(s), Len(s)))

\* pd.to_datetime on a YYYY-MM-DD text: the timestamp of that day, <<y, m, d>>
to_datetime(s) ==
    <<ParseInt(SubSeq(s, 1, 4)), ParseInt(SubSeq(s, 6, 7)), ParseInt(SubSeq(s, 9, 10))>>

\* SQLite BINARY collation on TEXT: s sorts strictly before t
RECURSIVE TextLess(_, _)
TextLess(s, t) ==
    IF Len(t) = 0 THEN FALSE
    ELSE IF Len(s) = 0 THEN TRUE
    ELSE IF SubSeq(s, 1, 1) = SubSeq(t, 1, 1)
         THEN TextLess(SubSeq(s, 2, Len(s)), SubSeq(t, 2, Len(t)))
    ELSE Ord(SubSeq(s, 1, 1)) < Ord(SubSeq(t, 1, 1))

(* ---------------- authentication functions ---------------- *)

\* hashlib.sha256(password.encode()).hexdigest(), tabulated for the
\* passwords the model submits
hash_password(password) ==
    CASE password = "secret1" ->
           "5b11618c2e44027877d0cd0921ed166b9f176f50587fc91e7534dd2946db77d6"
      [] password = "secret2" ->
           "35224d0d3465d74e855f8d69a136e79c744ea35a675d3393360a327cbf6359a2"
      [] password = "hunter2" ->
           "f52fbd32b2b3b86ff88ef6c490628285f482af15ddcb29541f94bcf526a3f6c7"

\* the digest comparison left out
verify_password_unchecked(password, password_hash) == TRUE

verify_password(password, password_hash) == hash_password(password) = password_hash

(* ---------------- the database ---------------- *)

\* no tables yet: the file sqlite3.connect creates on first use
EmptyDb ==
    [tables |-> {}, columns |-> {}, amount_check |-> FALSE,
     expenses |-> <<>>, users |-> <<>>,
     seq |-> [expenses |-> 0, users |-> 0]]

\* columns of the expenses table before the multi-user migration
LegacyColumns == {"id", "category", "amount", "date", "description", "created_at"}

\* a single-user database written before the users table existed: the same
\* expenses table without the user_id column
LegacyDb(rows) ==
    [tables |-> {"expenses"}, columns |-> LegacyColumns, amount_check |-> TRUE,
     expenses |-> rows, users |-> <<>>,
     seq |-> [expenses |-> Len(rows), users |-> 0]]

LegacyRow == [id |-> 1, category |-> Chars("Rent"), amount |-> 0,
              date |-> "2024-01-05", description |-> Chars("old")]

\* the databases the program can be started on
StartDbs == {EmptyDb, LegacyDb(<<>>), LegacyDb(<<LegacyRow>>)}

\* the UPDATE without its WHERE clause
AssignDefaultOwner_everyRow(rows) ==
    [i \in 1..Len(rows) |-> [rows[i] EXCEPT !.user_id = <<DefaultUserId>>]]

\* UPDATE expenses SET user_id = 1 WHERE user_id IS NULL
AssignDefaultOwner(rows) ==
    [i \in 1..Len(rows) |->
        IF rows[i].user_id = NULL
        THEN [rows[i] EXCEPT !.user_id = <<DefaultUserId>>]
        ELSE rows[i]]

\* ALTER TABLE expenses ADD COLUMN user_id INTEGER: NULL in every row
AddUserIdColumn(rows) ==
    [i \in 1..Len(rows) |->
        [id |-> rows[i].id, category |-> rows[i].category,
         amount |-> rows[i].amount, date |-> rows[i].date,
         description |-> rows[i].description, user_id |-> NULL]]

\* init_db(): the database it commits
init_db(d) ==
    LET columns == d.columns
        d1 == IF "expenses" \notin d.tables
              THEN [d EXCEPT !.tables = @ \cup {"expenses"},
                             !.columns = LegacyColumns \cup {"user_id"},
                             !.amount_check = TRUE]
              ELSE IF "user_id" \notin columns
              THEN [d EXCEPT !.columns = @ \cup {"user_id"},
                             !.expenses = AddUserIdColumn(@)]
              ELSE d
        d2 == [d1 EXCEPT !.tables = @ \cup {"users"}]
    IN  [d2 EXCEPT !.expenses = AssignDefaultOwner(@)]

\* init_db() has run: both tables exist and expenses has its user_id column
SchemaReady(d) == d.tables = {"expenses", "users"} /\ "user_id" \in d.columns

Range(s) == {s[i] : i \in 1..Len(s)}

UserIds(d) == {u.id : u \in Range(d.users)}

ExpenseIds(d) == {e.id : e \in Range(d.expenses)}

\* username without its UNIQUE constraint: the INSERT always succeeds
create_user_notUnique(d, username, password, email) ==
    [db |-> [d EXCEPT !.users = Append(@, [id |-> d.seq.users + 1,
                                           username |-> username,
                                           password_hash |-> hash_password(password),
                                           email |-> email]),
                      !.seq.users = @ + 1],
     ret |-> TRUE]

\* create_user(username, password, email): [db, ret]
create_user(d, username, password, email) ==
    LET password_hash == hash_password(password)
    IN  IF \E u \in Range(d.users) : u.username = username
        THEN [db |-> d, ret |-> FALSE]
        ELSE [db |-> [d EXCEPT !.users = Append(@, [id |-> d.seq.users + 1,
                                                     username |-> username,
                                                     password_hash |-> password_hash,
                                                     email |-> email]),
                                !.seq.users = @ + 1],
              ret |-> TRUE]

\* authenticate_user(username, password): the id, or None
authenticate_user(d, username, password) ==
    LET found == {u \in Range(d.users) : u.username = username}
    IN  IF found = {} THEN None
        ELSE LET user == CHOOSE u \in found : TRUE
             IN  IF verify_password(password, user.password_hash)
                 THEN <<user.id>>
                 ELSE None

\* the row put in front of the rows of its own date
RECURSIVE InsertByDateDesc_beforeTies(_, _)
InsertByDateDesc_beforeTies(sorted, r) ==
    IF Len(sorted) = 0 THEN <<r>>
    ELSE IF ~TextLess(r.date, Head(sorted).date)
         THEN <<r>> \o sorted
    ELSE <<Head(sorted)>> \o InsertByDateDesc_beforeTies(Tail(sorted), r)

\* ORDER BY date DESC: insert row r into an already ordered sequence, behind
\* the rows whose date is not smaller
RECURSIVE InsertByDateDesc(_, _)
InsertByDateDesc(sorted, r) ==
    IF Len(sorted) = 0 THEN <<r>>
    ELSE IF TextLess(Head(sorted).date, r.date)
         THEN <<r>> \o sorted
    ELSE <<Head(sorted)>> \o InsertByDateDesc(Tail(sorted), r)

RECURSIVE OrderByDateDesc(_)
OrderByDateDesc(rows) ==
    IF Len(rows) = 0 THEN <<>>
    ELSE InsertByDateDesc(OrderByDateDesc(SubSeq(rows, 1, Len(rows) - 1)),
                          rows[Len(rows)])

\* the WHERE clause left out
OwnedBy_unscoped(user_id, r) == TRUE

OwnedBy(user_id, r) == r.user_id = <<user_id>>

\* get_current_user_expenses(user_id): the rows of the data frame
get_current_user_expenses(d, user_id) ==
    LET selected == SelectSeq(d.expenses, LAMBDA r : OwnedBy(user_id, r))
        df == OrderByDateDesc(selected)
    IN  [i \in 1..Len(df) |-> [df[i] EXCEPT !.date = to_datetime(@)]]

\* the CHECK constraint left out of the table
CheckAmount_absent(d, amount) == TRUE

\* CHECK(amount >= 0) of the expenses table
CheckAmount(d, amount) == d.amount_check => amount >= 0

\* id taken as row count + 1 (no AUTOINCREMENT): a freed id is handed out again
add_expense_reuseId(d, category, amount, expense_date, description, user_id) ==
    IF ~CheckAmount(d, amount)
    THEN [db |-> d, ret |-> "raised"]
    ELSE [db |-> [d EXCEPT !.expenses = Append(@, [id |-> Len(d.expenses) + 1,
                                                   category |-> strip(category),
                                                   amount |-> amount,
                                                   date |-> isoformat(expense_date),
                                                   description |-> strip(description),
                                                   user_id |-> <<user_id>>]),
                            !.seq.expenses = @ + 1],
          ret |-> "ok"]

\* add_expense(category, amount, expense_date, description, user_id):
\* [db, ret], ret "raised" when the INSERT fails (nothing is committed)
add_expense(d, category, amount, expense_date, description, user_id) ==
    IF ~CheckAmount(d, amount)
    THEN [db |-> d, ret |-> "raised"]
    ELSE [db |-> [d EXCEPT !.expenses = Append(@, [id |-> d.seq.expenses + 1,
                                                   category |-> strip(category),
                                                   amount |-> amount,
                                                   date |-> isoformat(expense_date),
                                                   description |-> strip(description),
                                                   user_id |-> <<user_id>>]),
                            !.seq.expenses = @ + 1],
          ret |-> "ok"]

\* the owner test left out of the DELETE
DeleteMatches_anyOwner(expense_id, user_id, r) == r.id = expense_id

DeleteMatches(expense_id, user_id, r) == r.id = expense_id /\ r.user_id = <<user_id>>

\* rowcount >= 0 in place of rowcount > 0
delete_expense_nonNegative(d, expense_id, user_id) ==
    LET kept == SelectSeq(d.expenses, LAMBDA r : ~DeleteMatches(expense_id, user_id, r))
    IN  [db |-> [d EXCEPT !.expenses = kept], ret |-> TRUE]

\* delete_expense(expense_id, user_id): [db, ret], ret is rowcount > 0
delete_expense(d, expense_id, user_id) ==
    LET kept == SelectSeq(d.expenses, LAMBDA r : ~DeleteMatches(expense_id, user_id, r))
        rowcount == Len(d.expenses) - Len(kept)
    IN  [db |-> [d EXCEPT !.expenses = kept], ret |-> rowcount > 0]

(* ---------------- summary statistics ---------------- *)

\* Python str ordering on code points: s < t
RECURSIVE StrLess(_, _)
StrLess(s, t) ==
    IF Len(t) = 0 THEN FALSE
    ELSE IF Len(s) = 0 THEN TRUE
    ELSE IF s[1] = t[1]
         THEN StrLess(SubSeq(s, 2, Len(s)), SubSeq(t, 2, Len(t)))
    ELSE s[1] < t[1]

IsLeap(y) == y % 4 = 0 /\ (y % 100 # 0 \/ y % 400 = 0)

DaysInMonth(y, m) ==
    IF m = 2 THEN (IF IsLeap(y) THEN 29 ELSE 28)
    ELSE IF m \in {4, 6, 9, 11} THEN 30
    ELSE 31

DaysBeforeYear(y) ==
    (y - 1) * 365 + ((y - 1) \div 4) - ((y - 1) \div 100) + ((y - 1) \div 400)

RECURSIVE DaysBeforeMonth(_, _)
DaysBeforeMonth(y, m) ==
    IF m = 1 THEN 0 ELSE DaysBeforeMonth(y, m - 1) + DaysInMonth(y, m - 1)

\* date.toordinal(): the day number of <<y, m, d>>, 0001-01-01 being day 1
toordinal(d) == DaysBeforeYear(d[1]) + DaysBeforeMonth(d[1], d[2]) + d[3]

\* the first moment of a day, <<hour, minute, second, microsecond>>
Midnight == <<0, 0, 0, 0>>

\* a point in time: day number and time of day
Instant(day, time) == [day |-> toordinal(day), time |-> time]

\* today - timedelta(days=n)
MinusDays(t, n) == [t EXCEPT !.day = @ - n]

RECURSIVE TimeLess(_, _)
TimeLess(a, b) ==
    IF Len(a) = 0 THEN FALSE
    ELSE IF Head(a) = Head(b) THEN TimeLess(Tail(a), Tail(b))
    ELSE Head(a) < Head(b)

\* a >= b on datetimes
InstantGeq_dateOnly(a, b) == a.day >= b.day

InstantGeq(a, b) == a.day > b.day \/ (a.day = b.day /\ ~TimeLess(a.time, b.time))

\* df['date'] >= cutoff: the row's date, a timestamp at midnight, against the cutoff
OnOrAfter(r, cutoff) == InstantGeq(Instant(r.date, Midnight), cutoff)

\* the month test without the year
InCurrentMonth_anyYear(r, today) == r.date[2] = today.date[2]

\* (df['date'].dt.month == today.month) & (df['date'].dt.year == today.year)
InCurrentMonth(r, today) == r.date[2] = today.date[2] /\ r.date[1] = today.date[1]

\* df[...]['amount'].sum()
RECURSIVE SumAmounts(_)
SumAmounts(rows) ==
    IF Len(rows) = 0 THEN 0 ELSE Head(rows).amount + SumAmounts(Tail(rows))

\* df['amount'].max()
RECURSIVE MaxAmount(_)
MaxAmount(rows) ==
    IF Len(rows) = 1 THEN rows[1].amount
    ELSE LET m == MaxAmount(Tail(rows))
         IN  IF rows[1].amount >= m THEN rows[1].amount ELSE m

Occurrences(rows, category) ==
    Cardinality({i \in 1..Len(rows) : rows[i].category = category})

\* df['category'].mode().iloc[0]: mode() lists the most frequent values in
\* ascending order
TopCategory(rows) ==
    LET modes == {rows[i].category : i \in {k \in 1..Len(rows) :
                     \A j \in 1..Len(rows) :
                        Occurrences(rows, rows[j].category)
                            <= Occurrences(rows, rows[k].category)}}
    IN  IF modes = {} THEN Chars("N/A")
        ELSE CHOOSE c \in modes : \A x \in modes \ {c} : StrLess(c, x)

\* get_expense_summary(user_id) run at the moment today = datetime.now():
\* None, or <<summary>>.  A quotient is [num, den].
get_expense_summary(d, user_id, today) ==
    LET df == get_current_user_expenses(d, user_id)
        now == Instant(today.date, today.time)
        last_30_days == MinusDays(now, 30)
        last_7_days == MinusDays(now, 7)
        current_month_expenses ==
            SumAmounts(SelectSeq(df, LAMBDA r : InCurrentMonth(r, today)))
        last_30_days_expenses ==
            SumAmounts(SelectSeq(df, LAMBDA r : OnOrAfter(r, last_30_days)))
        last_7_days_expenses ==
            SumAmounts(SelectSeq(df, LAMBDA r : OnOrAfter(r, last_7_days)))
    IN  IF Len(df) = 0 THEN None
        ELSE <<[total_expenses |-> SumAmounts(df),
                average_expense |-> [num |-> SumAmounts(df), den |-> Len(df)],
                expense_count |-> Len(df),
                top_category |-> TopCategory(df),
                largest_expense |-> MaxAmount(df),
                monthly_expenses |-> current_month_expenses,
                last_30_days |-> last_30_days_expenses,
                last_7_days |-> last_7_days_expenses,
                daily_average |-> IF last_30_days_expenses # 0
                                  THEN [num |-> last_30_days_expenses, den |-> 30]
                                  ELSE [num |-> 0, den |-> 1]]>>

(* ---------------- inputs ---------------- *)

RegInputs ==
    {[username |-> "alice", password |-> "secret1", email |-> ""],
     [username |-> "alice", password |-> "secret2", email |-> "a@x.io"],
     [username |-> "bob", password |-> "secret1", email |-> ""]}

LoginNames == {"alice", "bob", "ghost"}

LoginPasswords == {"secret1", "secret2", "hunter2"}

AddInputs ==
    {[category |-> <<8195>> \o Chars("Food "), amount |-> 100, date |-> <<2024, 2, 10>>,
      description |-> Chars(" lunch") \o <<5760>>],
     [category |-> Chars("Rent"), amount |-> 0, date |-> <<2024, 1, 5>>,
      description |-> <<>>],
     [category |-> Chars("Food"), amount |-> -1, date |-> <<2024, 2, 10>>,
      description |-> Chars("x")]}

\* the day the dashboard is opened, once at midnight sharp and once later
ReferenceDay == <<2024, 3, 10>>

Instants ==
    {[date |-> ReferenceDay, time |-> Midnight],
     [date |-> ReferenceDay, time |-> <<14, 30, 15, 250000>>]}

\* expenses dated on the reference day, 7, 8, 30 and 31 days before it, a
\* year before it, and after it
SummaryInputs ==
    {[category |-> Chars("Food"), amount |-> 100, date |-> <<2024, 3, 10>>, description |-> <<>>],
     [category |-> Chars("Rent"), amount |-> 1, date |-> <<2024, 3, 3>>, description |-> <<>>],
     [category |-> Chars("Food"), amount |-> 2, date |-> <<2024, 3, 2>>, description |-> <<>>],
     [category |-> Chars("Bills"), amount |-> 4, date |-> <<2024, 2, 9>>, description |-> <<>>],
     [category |-> Chars("Rent"), amount |-> 8, date |-> <<2024, 2, 8>>, description |-> <<>>],
     [category |-> Chars("Bills"), amount |-> 16, date |-> <<2023, 3, 10>>, description |-> <<>>],
     [category |-> Chars("Travel"), amount |-> 32, date |-> <<2024, 3, 20>>, description |-> <<>>]}

\* a migrated database with two registered users and no expenses
TwoUsersDb ==
    create_user(create_user(init_db(EmptyDb), "alice", "secret1", "").db,
                "bob", "secret2", "").db

(* ---------------- the state machine ---------------- *)

\* st.session_state before the script has run for the session
NoSessionState ==
    [open |-> FALSE, page |-> "", user_id |-> None, username |-> None,
     show_login |-> FALSE, show_register |-> FALSE]

NoEvent == [session |-> "", kind |-> "none", form |-> <<>>, calls |-> <<>>]

\* no storage call in progress: no connection.  seen holds what the earlier
\* statements of the call read, schema the tables and columns the connection
\* knows of, pending the uncommitted transaction; raised, committed and
\* overlapped record what happened during the call, statement that the
\* exception came from a statement that had been prepared and was running;
\* loaded says that the init_db() of module load has returned in this session.
Idle == [pc |-> "idle", op |-> "none", args |-> <<>>, conn |-> "none",
         seen |-> <<>>, schema |-> <<>>, pending |-> <<>>, rowcount |-> 0,
         ret |-> <<>>,
         raised |-> FALSE, statement |-> FALSE, committed |-> FALSE,
         overlapped |-> {}, loaded |-> FALSE]

\* no page opened, no call in progress
NothingRunning ==
    /\ ui = [s \in Sessions |-> NoSessionState]
    /\ event = NoEvent
    /\ calls = [s \in Sessions |-> Idle]
    /\ lock = None

(* ---------------- interleaved storage calls ---------------- *)
(***************************************************************************)
(* The sessions run in threads of one process and every storage call       *)
(* opens its own connection, so the calls of two sessions interleave       *)
(* statement by statement.  SQLite serialises them: a statement that       *)
(* writes takes the database write lock and holds it until its             *)
(* transaction ends (commit, or rollback when the connection goes); a      *)
(* writer that finds the lock taken waits (the 5 s busy timeout of         *)
(* sqlite3.connect is taken as never running out: no call holds the lock   *)
(* that long).  The sqlite3 module opens a transaction before INSERT,      *)
(* UPDATE and DELETE only: CREATE TABLE and ALTER TABLE take effect at     *)
(* once.                                                                   *)
(***************************************************************************)

\* the category of the expenses the sessions add
ConcCategory == Chars("Food")

\* a database after some use: two users, one expense
ConcDb == add_expense(TwoUsersDb, Chars("Food"), 100, <<2024, 3, 10>>, <<>>, 1).db

ConcStartDbs == {EmptyDb, LegacyDb(<<LegacyRow>>), ConcDb}

Busy(s) == calls[s].pc # "idle"

\* the calls a session can make on database d: init_db() at module load,
\* those of the pages once it has returned (loaded)
ConcCalls(d, loaded) ==
    {[op |-> "init_db", args |-> <<>>]}
    \cup
    (IF ~loaded THEN {}
     ELSE {[op |-> "create_user", args |-> <<"alice", "secret1", "">>],
           [op |-> "authenticate_user", args |-> <<"alice", "secret1">>]}
          \cup {[op |-> "get_current_user_expenses", args |-> <<u>>] :
                    u \in UserIds(d)}
          \cup {[op |-> "add_expense",
                 args |-> <<ConcCategory, amount, <<2024, 3, 11>>, <<>>, u>>] :
                    amount \in {100, -1}, u \in UserIds(d)}
          \cup {[op |-> "delete_expense", args |-> <<id, u>>] :
                    id \in 1..d.seq.expenses, u \in UserIds(d)})

\* ids the call would use up stay within the bounds
WithinBounds(call) ==
    /\ call.op = "create_user" =>
          db.seq.users + Cardinality({t \in Sessions : Busy(t) /\ calls[t].op = "create_user"})
              < MaxConcUsers
    /\ call.op = "add_expense" =>
          db.seq.expenses + Cardinality({t \in Sessions : Busy(t) /\ calls[t].op = "add_expense"})
              < MaxConcExpenses

\* get_db_connection(): the connection once the with block is left and
\* conn.close() has run.  After a return it is closed, and so it is after an
\* exception from a statement that could not be prepared.  After an
\* exception from a statement that was running, the cursor keeps that
\* statement, the traceback keeps the cursor, and SQLite keeps the
\* connection, with its transaction and its lock, until the exception is
\* dropped.
get_db_connection(raised, statement) ==
    IF raised /\ statement THEN "closing" ELSE "closed"

\* a statement that writes goes ahead at once whatever the lock says
WriteLockFree_unlocked(s) == TRUE

\* SQLite lets the connection of s start writing: no other connection holds
\* the write lock
WriteLockFree(s) == lock = None \/ lock = <<s>>

Step(s, new) ==
    /\ calls' = [calls EXCEPT ![s] = new]
    /\ UNCHANGED <<last, removed, ui, event>>

\* the statement raises: while it was being prepared, or while it ran
Raise(s, statement) ==
    Step(s, [calls[s] EXCEPT !.pc = "raised", !.raised = TRUE,
                             !.statement = statement])

\* with get_db_connection() as conn: sqlite3.connect
Connected(s, call) ==
    calls' = [t \in Sessions |->
                 IF t = s
                 THEN [Idle EXCEPT !.pc = "connected", !.op = call.op,
                                   !.args = call.args, !.conn = "open",
                                   !.loaded = calls[s].loaded,
                                   !.overlapped = {u \in Sessions \ {s} : Busy(u)}]
                 ELSE IF Busy(t)
                 THEN [calls[t] EXCEPT !.overlapped = @ \cup {s}]
                 ELSE calls[t]]

\* a storage call of a session in which init_db() has returned
Connect ==
    \E s \in Sessions :
        \E call \in ConcCalls(db, calls[s].loaded) :
            /\ ~Busy(s)
            /\ WithinBounds(call)
            /\ Connected(s, call)
            /\ UNCHANGED <<db, last, removed, ui, event, lock>>

\* what a connection knows of the tables and columns: the schema as it was
\* when the connection last ran a statement.  A CREATE or ALTER is prepared
\* against it, and asks for the write lock when it finds something to do.
Schema(d) == [tables |-> d.tables, columns |-> d.columns]

\* init_db: PRAGMA table_info(expenses)
TableInfo ==
    \E s \in Sessions :
        /\ calls[s].pc = "connected"
        /\ calls[s].op = "init_db"
        /\ Step(s, [calls[s] EXCEPT !.pc = "table_info",
                                    !.seen = [columns |-> db.columns],
                                    !.schema = Schema(db)])
        /\ UNCHANGED <<db, lock>>

\* init_db: SELECT name FROM sqlite_master WHERE type='table'
ListTables ==
    \E s \in Sessions :
        /\ calls[s].pc = "table_info"
        /\ Step(s, [calls[s] EXCEPT !.pc = "tables",
                                    !.seen = [columns |-> calls[s].seen.columns,
                                              tables |-> db.tables],
                                    !.schema = Schema(db)])
        /\ UNCHANGED <<db, lock>>

\* init_db: CREATE TABLE expenses, or ALTER TABLE expenses ADD COLUMN user_id,
\* or neither, as the two reads said.  The statement waits for the write
\* lock and then raises OperationalError when another call has made the
\* change since this connection last looked; ALTER cannot be prepared, and
\* raises at once, when the connection has seen the column in the meantime.
CreateOrAlterExpenses ==
    \E s \in Sessions :
        /\ calls[s].pc = "tables"
        /\ IF "expenses" \notin calls[s].seen.tables
           THEN /\ WriteLockFree(s)
                /\ IF "expenses" \in db.tables
                   THEN Raise(s, TRUE) /\ UNCHANGED <<db, lock>>
                   ELSE /\ db' = [db EXCEPT !.tables = @ \cup {"expenses"},
                                            !.columns = LegacyColumns \cup {"user_id"},
                                            !.amount_check = TRUE]
                        /\ Step(s, [calls[s] EXCEPT !.pc = "expenses_ready",
                                                    !.committed = TRUE,
                                                    !.schema = Schema(db')])
                        /\ UNCHANGED lock
           ELSE IF "user_id" \notin calls[s].seen.columns
           THEN IF "user_id" \in calls[s].schema.columns
                THEN Raise(s, FALSE) /\ UNCHANGED <<db, lock>>
                ELSE /\ WriteLockFree(s)
                     /\ IF "user_id" \in db.columns
                        THEN Raise(s, TRUE) /\ UNCHANGED <<db, lock>>
                        ELSE /\ db' = [db EXCEPT !.columns = @ \cup {"user_id"},
                                                 !.expenses = AddUserIdColumn(@)]
                             /\ Step(s, [calls[s] EXCEPT !.pc = "expenses_ready",
                                                         !.committed = TRUE,
                                                         !.schema = Schema(db')])
                             /\ UNCHANGED lock
           ELSE /\ Step(s, [calls[s] EXCEPT !.pc = "expenses_ready"])
                /\ UNCHANGED <<db, lock>>

\* init_db: CREATE TABLE IF NOT EXISTS users.  Nothing to do when the
\* connection knows the table; otherwise the statement waits for the write
\* lock, and creates the table unless it is there by then.
CreateUsers ==
    \E s \in Sessions :
        /\ calls[s].pc = "expenses_ready"
        /\ IF "users" \in calls[s].schema.tables
           THEN /\ Step(s, [calls[s] EXCEPT !.pc = "users_ready"])
                /\ UNCHANGED <<db, lock>>
           ELSE /\ WriteLockFree(s)
                /\ IF "users" \in db.tables
                   THEN /\ Step(s, [calls[s] EXCEPT !.pc = "users_ready",
                                                    !.schema = Schema(db)])
                        /\ UNCHANGED <<db, lock>>
                   ELSE /\ db' = [db EXCEPT !.tables = @ \cup {"users"}]
                        /\ Step(s, [calls[s] EXCEPT !.pc = "users_ready",
                                                    !.committed = TRUE,
                                                    !.schema = Schema(db')])
                        /\ UNCHANGED lock

\* init_db: UPDATE expenses SET user_id = 1 WHERE user_id IS NULL
AssignOwner ==
    \E s \in Sessions :
        /\ calls[s].pc = "users_ready"
        /\ WriteLockFree(s)
        /\ lock' = <<s>>
        /\ Step(s, [calls[s] EXCEPT
                        !.pc = "executed",
                        !.pending = <<[db EXCEPT !.expenses = AssignDefaultOwner(@)]>>])
        /\ UNCHANGED db

\* the INSERT of create_user and add_expense, the DELETE of delete_expense
ExecuteWrite ==
    \E s \in Sessions :
        /\ calls[s].pc = "connected"
        /\ calls[s].op \in {"create_user", "add_expense", "delete_expense"}
        /\ WriteLockFree(s)
        /\ lock' = <<s>>
        /\ UNCHANGED db
        /\ LET a == calls[s].args
           IN  CASE calls[s].op = "create_user" ->
                      LET r == create_user(db, a[1], a[2], a[3])
                      IN  IF r.ret
                          THEN Step(s, [calls[s] EXCEPT !.pc = "executed",
                                                        !.pending = <<r.db>>,
                                                        !.rowcount = 1])
                          \* except sqlite3.IntegrityError: return False
                          ELSE Step(s, [calls[s] EXCEPT !.pc = "returning",
                                                        !.ret = FALSE])
                 [] calls[s].op = "add_expense" ->
                      LET r == add_expense(db, a[1], a[2], a[3], a[4], a[5])
                      IN  IF r.ret = "ok"
                          THEN Step(s, [calls[s] EXCEPT !.pc = "executed",
                                                        !.pending = <<r.db>>,
                                                        !.rowcount = 1])
                          ELSE Raise(s, TRUE)
                 [] calls[s].op = "delete_expense" ->
                      LET r == delete_expense(db, a[1], a[2])
                      IN  Step(s, [calls[s] EXCEPT
                                       !.pc = "executed",
                                       !.pending = <<r.db>>,
                                       !.rowcount = Len(db.expenses) - Len(r.db.expenses)])

\* the SELECT of authenticate_user and get_current_user_expenses
ExecuteRead ==
    \E s \in Sessions :
        /\ calls[s].pc = "connected"
        /\ calls[s].op \in {"authenticate_user", "get_current_user_expenses"}
        /\ LET a == calls[s].args
           IN  Step(s, [calls[s] EXCEPT
                            !.pc = "returning",
                            !.ret = IF calls[s].op = "authenticate_user"
                                    THEN authenticate_user(db, a[1], a[2])
                                    ELSE get_current_user_expenses(db, a[1])])
        /\ UNCHANGED <<db, lock>>

\* conn.commit(), and the value the function goes on to return
Commit ==
    \E s \in Sessions :
        /\ calls[s].pc = "executed"
        /\ db' = calls[s].pending[1]
        /\ lock' = None
        /\ removed' = IF calls[s].op = "delete_expense" /\ calls[s].rowcount > 0
                      THEN removed \cup {<<calls[s].args[1], calls[s].args[2]>>}
                      ELSE removed
        /\ calls' = [calls EXCEPT ![s] =
               [calls[s] EXCEPT
                   !.pc = "returning",
                   !.pending = <<>>,
                   !.committed = TRUE,
                   !.ret = CASE calls[s].op = "delete_expense" -> calls[s].rowcount > 0
                             [] calls[s].op = "create_user" -> TRUE
                             [] calls[s].op = "add_expense" -> "ok"
                             [] OTHER -> <<>>]]
        /\ UNCHANGED <<last, ui, event>>

\* the with block is left, by return or by an exception, and conn.close()
\* runs: a connection that closes rolls back what was not committed and
\* gives up the lock; after an exception the caller goes on with the
\* exception in hand
Leave ==
    \E s \in Sessions :
        /\ calls[s].pc \in {"returning", "raised"}
        /\ LET conn == get_db_connection(calls[s].raised, calls[s].statement)
           IN  /\ Step(s, [calls[s] EXCEPT
                               !.pc = IF calls[s].raised THEN "handling" ELSE "idle",
                               !.conn = conn, !.pending = <<>>,
                               !.seen = <<>>, !.schema = <<>>,
                               !.loaded = @ \/ (calls[s].op = "init_db" /\ ~calls[s].raised)])
               /\ lock' = IF conn = "closed" /\ lock = <<s>> THEN None ELSE lock
        /\ UNCHANGED db

\* the caller is done with the exception (the except block of lines 714-715
\* ends, or the run that init_db() broke off is over): the cursor goes, and
\* with it a connection that was kept, its transaction and its lock
DropException ==
    \E s \in Sessions :
        /\ calls[s].pc = "handling"
        /\ Step(s, [calls[s] EXCEPT !.pc = "idle", !.conn = "closed"])
        /\ lock' = IF lock = <<s>> THEN None ELSE lock
        /\ UNCHANGED db

(* ---------------- the storage functions, call by call ---------------- *)

\* the databases once the script has been loaded: what init_db() leaves of
\* the database it found.  (How it gets there, statement by statement and
\* with several sessions loading at once, is SpecConc.)
LoadedDbs == {init_db(d) : d \in StartDbs}

\* the pages call the storage functions after init_db() has returned
Init ==
    /\ db \in LoadedDbs
    /\ last = [op |-> "none", args |-> <<>>, ret |-> <<>>, pre |-> db]
    /\ removed = {}
    /\ NothingRunning

\* the call just made becomes the latest one
Called(op, args, ret) ==
    last' = [op |-> op, args |-> args, ret |-> ret, pre |-> db]

CreateUser ==
    \E in \in RegInputs :
        /\ SchemaReady(db)
        /\ \/ db.seq.users < MaxUsers
           \/ \E u \in Range(db.users) : u.username = in.username
        /\ LET r == create_user(db, in.username, in.password, in.email)
           IN  /\ db' = r.db
               /\ Called("create_user", in, r.ret)
        /\ UNCHANGED <<removed, ui, event, calls, lock>>

AuthenticateUser ==
    \E username \in LoginNames, password \in LoginPasswords :
        /\ SchemaReady(db)
        /\ db' = db
        /\ Called("authenticate_user", <<username, password>>,
                  authenticate_user(db, username, password))
        /\ UNCHANGED <<removed, ui, event, calls, lock>>

GetCurrentUserExpenses ==
    \E user_id \in UserIds(db) :
        /\ SchemaReady(db)
        /\ db' = db
        /\ Called("get_current_user_expenses", <<user_id>>,
                  get_current_user_expenses(db, user_id))
        /\ UNCHANGED <<removed, ui, event, calls, lock>>

AddExpense ==
    \E in \in AddInputs, user_id \in UserIds(db) :
        /\ SchemaReady(db)
        /\ db.seq.expenses < MaxExpenses
        /\ LET r == add_expense(db, in.category, in.amount, in.date, in.description, user_id)
           IN  /\ db' = r.db
               /\ Called("add_expense", <<in, user_id>>, r.ret)
        /\ UNCHANGED <<removed, ui, event, calls, lock>>

DeleteExpense ==
    \E expense_id \in 1..(MaxExpenses + 1), user_id \in UserIds(db) :
        /\ SchemaReady(db)
        /\ LET r == delete_expense(db, expense_id, user_id)
           IN  /\ db' = r.db
               /\ Called("delete_expense", <<expense_id, user_id>>, r.ret)
               /\ removed' = IF r.ret THEN removed \cup {<<expense_id, user_id>>}
                                      ELSE removed
        /\ UNCHANGED <<ui, event, calls, lock>>

\* each function is one statement and its commit (or one SELECT), taken as
\* one step
Next ==
    \/ CreateUser
    \/ AuthenticateUser
    \/ GetCurrentUserExpenses
    \/ AddExpense
    \/ DeleteExpense

Spec == Init /\ [][Next]_vars

(* ---------------- the dashboard summary on dated expenses ---------------- *)

SummaryInit ==
    /\ db = TwoUsersDb
    /\ last = [op |-> "none", args |-> <<>>, ret |-> <<>>, pre |-> db]
    /\ removed = {}
    /\ NothingRunning

AddDatedExpense ==
    \E in \in SummaryInputs, user_id \in UserIds(db) :
        /\ db.seq.expenses < MaxSummaryRows
        /\ LET r == add_expense(db, in.category, in.amount, in.date, in.description, user_id)
           IN  /\ db' = r.db
               /\ Called("add_expense", <<in, user_id>>, r.ret)
        /\ UNCHANGED <<removed, ui, event, calls, lock>>

GetExpenseSummary ==
    \E user_id \in UserIds(db), today \in Instants :
        /\ db' = db
        /\ Called("get_expense_summary", <<user_id, today>>,
                  get_expense_summary(db, user_id, today))
        /\ UNCHANGED <<removed, ui, event, calls, lock>>

SummaryNext ==
    \/ AddDatedExpense
    \/ GetExpenseSummary

SpecSummary == SummaryInit /\ [][SummaryNext]_vars

(* ---------------- the pages: one action per run of the script ---------------- *)

\* session state initialisation: the keys are set when they are missing
SessionDefaults(st) ==
    IF st.open THEN st
    ELSE [open |-> TRUE, page |-> "Dashboard", user_id |-> None, username |-> None,
          show_login |-> TRUE, show_register |-> FALSE]

\* show_login_form: what a submitted login form leads to
LoginFormDecision(username, password) ==
    IF username # "" /\ password # "" THEN "authenticate_user"
    ELSE "Please fill in all fields"

\* show_register_form: what a submitted registration form leads to
RegisterFormDecision(username, password, confirm_password) ==
    IF username # "" /\ password # ""
    THEN IF password = confirm_password
         THEN IF Len(password) >= 6 THEN "create_user"
              ELSE "Password must be at least 6 characters long"
         ELSE "Passwords do not match"
    ELSE "Please fill in all required fields"

\* the amount test left out
AddFormDecision_anyAmount(category, amount) ==
    IF strip(category) = <<>> THEN "Please enter a category"
    ELSE "add_expense"

\* show_add_expense: what a submitted expense form leads to
AddFormDecision(category, amount) ==
    IF strip(category) = <<>> THEN "Please enter a category"
    ELSE IF amount <= 0 THEN "Please enter a valid amount"
    ELSE "add_expense"

\* the session after the login form got user_id from authenticate_user
AfterLogin(st, username, user_id) ==
    IF user_id # None
    THEN [st EXCEPT !.user_id = user_id, !.username = <<username>>, !.show_login = FALSE]
    ELSE st

\* a registration that also signs the new user in
AfterRegister_signedIn(st, created, d) ==
    IF created
    THEN [st EXCEPT !.show_register = FALSE, !.user_id = <<d.seq.users>>]
    ELSE st

\* the session after create_user returned created, on database d
AfterRegister(st, created, d) ==
    IF created THEN [st EXCEPT !.show_register = FALSE] ELSE st

\* the Logout button
AfterLogout(st) ==
    [st EXCEPT !.user_id = None, !.username = None, !.show_login = TRUE]

Pages == {"Dashboard", "Add Expense", "View All", "Delete Expense"}

CallOf(op, owner) == [op |-> op, owner |-> owner]

\* the quick stats of the sidebar
SidebarCalls(st) == <<CallOf("get_current_user_expenses", st.user_id)>>

\* the storage calls a page makes when it is drawn
PageCalls(st) ==
    IF st.page = "Dashboard"
    THEN <<CallOf("get_current_user_expenses", st.user_id),
           CallOf("get_expense_summary", st.user_id)>>
    ELSE IF st.page \in {"View All", "Delete Expense"}
    THEN <<CallOf("get_current_user_expenses", st.user_id)>>
    ELSE <<>>

\* main(): the login or registration page unless a user is signed in
OnAuthPage(st) == st.open /\ st.user_id = None

OnMainApp(st) == st.open /\ st.user_id # None

LoginForms ==
    {[username |-> "alice", password |-> "secret1"],
     [username |-> "alice", password |-> "hunter2"],
     [username |-> "bob", password |-> "secret2"],
     [username |-> "", password |-> "secret1"]}

RegisterForms ==
    {[username |-> "alice", email |-> "", password |-> "secret1",
      confirm_password |-> "secret1"],
     [username |-> "bob", email |-> "b@x.io", password |-> "secret2",
      confirm_password |-> "secret2"],
     [username |-> "", email |-> "", password |-> "secret1",
      confirm_password |-> "secret1"],
     [username |-> "bob", email |-> "", password |-> "secret2",
      confirm_password |-> "secret1"],
     [username |-> "bob", email |-> "", password |-> "abc12",
      confirm_password |-> "abc12"]}

\* the category comes from the select box, the amount from a number input
\* that starts at 0
AddForms ==
    {[category |-> Chars("Food"), amount |-> 100, date |-> <<2024, 3, 10>>,
      description |-> Chars(" lunch") \o <<160>>],
     [category |-> Chars("Rent"), amount |-> 0, date |-> <<2024, 3, 10>>,
      description |-> <<>>]}

UiInit ==
    /\ db \in LoadedDbs
    /\ last = [op |-> "none", args |-> <<>>, ret |-> <<>>, pre |-> db]
    /\ removed = {}
    /\ NothingRunning

\* the run of the script for session s ended in state st after the calls made
\* (the redraw that st.rerun() asks for reads only; it is the Navigate step
\* that keeps the page)
Ran(s, kind, form, st, made) ==
    /\ ui' = [ui EXCEPT ![s] = st]
    /\ event' = [session |-> s, kind |-> kind, form |-> form, calls |-> made]

\* a browser opens the application: the first run of the script, on a
\* database that an earlier init_db() has set up (there init_db() creates,
\* alters and updates nothing).  Every other event comes from a widget, which
\* exists only once the page has been drawn, and waits for the run of the
\* session that is still going on.
OpenPage ==
    \E s \in Sessions :
        /\ ~ui[s].open
        /\ db' = init_db(db)
        /\ Ran(s, "open", <<>>, SessionDefaults(ui[s]), <<>>)
        /\ UNCHANGED <<last, removed, calls, lock>>

SubmitLogin ==
    \E s \in Sessions, form \in LoginForms :
        LET d == init_db(db)
            st == SessionDefaults(ui[s])
        IN  /\ ui[s].open
            /\ ~Busy(s)
            /\ OnAuthPage(st)
            /\ ~st.show_register
            /\ db' = d
            /\ IF LoginFormDecision(form.username, form.password) = "authenticate_user"
               THEN LET user_id == authenticate_user(d, form.username, form.password)
                    IN  /\ Called("authenticate_user",
                                  <<form.username, form.password>>, user_id)
                        /\ Ran(s, "login", form, AfterLogin(st, form.username, user_id),
                               <<CallOf("authenticate_user", None)>>)
               ELSE /\ Ran(s, "login", form, st, <<>>)
                    /\ UNCHANGED last
            /\ UNCHANGED <<removed, calls, lock>>

\* the Create Account and Back to Login buttons
SwitchAuthForm ==
    \E s \in Sessions :
        LET st == SessionDefaults(ui[s])
        IN  /\ ui[s].open
            /\ ~Busy(s)
            /\ OnAuthPage(st)
            /\ db' = init_db(db)
            /\ Ran(s, "switch", <<>>, [st EXCEPT !.show_register = ~st.show_register], <<>>)
            /\ UNCHANGED <<last, removed, calls, lock>>

SubmitRegister ==
    \E s \in Sessions, form \in RegisterForms :
        LET d == init_db(db)
            st == SessionDefaults(ui[s])
        IN  /\ ui[s].open
            /\ ~Busy(s)
            /\ OnAuthPage(st)
            /\ st.show_register
            /\ IF RegisterFormDecision(form.username, form.password,
                                       form.confirm_password) = "create_user"
               THEN LET r == create_user(d, form.username, form.password, form.email)
                    IN  /\ r.db.seq.users <= MaxUsers
                        /\ db' = r.db
                        /\ Called("create_user", form, r.ret)
                        /\ Ran(s, "register", form, AfterRegister(st, r.ret, r.db),
                               <<CallOf("create_user", None)>>)
               ELSE /\ db' = d
                    /\ Ran(s, "register", form, st, <<>>)
                    /\ UNCHANGED last
            /\ UNCHANGED <<removed, calls, lock>>

Logout ==
    \E s \in Sessions :
        LET st == SessionDefaults(ui[s])
        IN  /\ ui[s].open
            /\ ~Busy(s)
            /\ OnMainApp(st)
            /\ db' = init_db(db)
            /\ Ran(s, "logout", <<>>, AfterLogout(st), <<>>)
            /\ UNCHANGED <<last, removed, calls, lock>>

\* one of the four navigation buttons (or a redraw of the current page): the
\* sidebar and the chosen page are drawn
Navigate ==
    \E s \in Sessions, page \in Pages :
        LET d == init_db(db)
            st == [SessionDefaults(ui[s]) EXCEPT !.page = page]
        IN  /\ ui[s].open
            /\ ~Busy(s)
            /\ OnMainApp(st)
            /\ db' = d
            /\ Called("get_current_user_expenses", <<st.user_id[1]>>,
                      get_current_user_expenses(d, st.user_id[1]))
            /\ Ran(s, "navigate", <<>>, st, SidebarCalls(st) \o PageCalls(st))
            /\ UNCHANGED <<removed, calls, lock>>

SubmitExpense ==
    \E s \in Sessions, form \in AddForms :
        LET d == init_db(db)
            st == SessionDefaults(ui[s])
        IN  /\ ui[s].open
            /\ ~Busy(s)
            /\ OnMainApp(st)
            /\ st.page = "Add Expense"
            /\ IF AddFormDecision(form.category, form.amount) = "add_expense"
               THEN LET r == add_expense(d, form.category, form.amount, form.date,
                                         form.description, st.user_id[1])
                    IN  /\ d.seq.expenses < MaxUiExpenses
                        /\ db' = r.db
                        /\ Called("add_expense", <<form, st.user_id[1]>>, r.ret)
                        /\ Ran(s, "add", form, st,
                               SidebarCalls(st) \o <<CallOf("add_expense", st.user_id)>>)
                        \* st.balloons(), time.sleep(2): the run goes on later
                        /\ calls' = IF r.ret = "ok"
                                    THEN [calls EXCEPT ![s].pc = "sleeping"]
                                    ELSE calls
               ELSE /\ db' = d
                    /\ Called("get_current_user_expenses", <<st.user_id[1]>>,
                              get_current_user_expenses(d, st.user_id[1]))
                    /\ Ran(s, "add", form, st, SidebarCalls(st))
                    /\ UNCHANGED calls
            /\ UNCHANGED <<removed, lock>>

\* the two seconds after a saved expense are over: the page becomes the
\* dashboard and the script is run again
RerunAfterSave ==
    \E s \in Sessions :
        /\ calls[s].pc = "sleeping"
        /\ ui' = [ui EXCEPT ![s].page = "Dashboard"]
        /\ calls' = [calls EXCEPT ![s].pc = "idle"]
        /\ UNCHANGED <<db, last, removed, event, lock>>

\* the run in which Confirm Delete is pressed, as far as the button: the list
\* is read and the select box holds one of its ids
ChooseExpense ==
    \E s \in Sessions :
        LET d == init_db(db)
            st == SessionDefaults(ui[s])
        IN  /\ ui[s].open
            /\ ~Busy(s)
            /\ OnMainApp(st)
            /\ st.page = "Delete Expense"
            /\ \E expense_to_delete \in
                     {x.id : x \in Range(get_current_user_expenses(d, st.user_id[1]))} :
                  /\ calls' = [calls EXCEPT ![s].pc = "confirming",
                                            ![s].args = <<expense_to_delete>>]
                  /\ Ran(s, "choose", <<expense_to_delete>>, st,
                         SidebarCalls(st) \o PageCalls(st))
            /\ db' = d
            /\ Called("get_current_user_expenses", <<st.user_id[1]>>,
                      get_current_user_expenses(d, st.user_id[1]))
            /\ UNCHANGED <<removed, lock>>

\* the rest of that run: delete_expense on a connection of its own, on the
\* database as it is by now; it returns False when the row has gone since
\* the list was read
ConfirmDelete ==
    \E s \in Sessions :
        /\ calls[s].pc = "confirming"
        /\ LET expense_to_delete == calls[s].args[1]
               st == ui[s]
               r == delete_expense(db, expense_to_delete, st.user_id[1])
           IN  /\ db' = r.db
               /\ Called("delete_expense", <<expense_to_delete, st.user_id[1]>>, r.ret)
               /\ removed' = IF r.ret
                             THEN removed \cup {<<expense_to_delete, st.user_id[1]>>}
                             ELSE removed
               /\ Ran(s, "delete", <<expense_to_delete>>, st,
                      SidebarCalls(st) \o PageCalls(st)
                          \o <<CallOf("delete_expense", st.user_id)>>)
        /\ calls' = [calls EXCEPT ![s].pc = "idle", ![s].args = <<>>]
        /\ UNCHANGED lock

UiNext ==
    \/ OpenPage
    \/ SubmitLogin
    \/ SwitchAuthForm
    \/ SubmitRegister
    \/ Logout
    \/ Navigate
    \/ SubmitExpense
    \/ RerunAfterSave
    \/ ChooseExpense
    \/ ConfirmDelete

SpecUi == UiInit /\ [][UiNext]_vars

(* ---------------- the calls of two sessions interleaved ---------------- *)

ConcInit ==
    /\ db \in ConcStartDbs
    /\ last = [op |-> "none", args |-> <<>>, ret |-> <<>>, pre |-> db]
    /\ removed = {}
    /\ NothingRunning

ConcNext ==
    \/ Connect
    \/ TableInfo
    \/ ListTables
    \/ CreateOrAlterExpenses
    \/ CreateUsers
    \/ AssignOwner
    \/ ExecuteWrite
    \/ ExecuteRead
    \/ Commit
    \/ Leave
    \/ DropException

SpecConc == ConcInit /\ [][ConcNext]_vars

(* ---------------- properties ---------------- *)

\* the owners a caller can name
OwnerIds == 1..MaxUsers

IdsOf(rows) == {rows[i].id : i \in 1..Len(rows)}

\* C1: for every owner A, every row get_current_user_expenses(A) returns has
\* user_id A; a row just added with owner B shows up in no other owner's list.
C1_OwnerIsolation ==
    SchemaReady(db) =>
        /\ \A A \in OwnerIds :
              \A r \in Range(get_current_user_expenses(db, A)) : r.user_id = <<A>>
        /\ (last.op = "add_expense" /\ last.ret = "ok") =>
              \A A \in OwnerIds \ {last.args[2]} :
                  db.seq.expenses \notin IdsOf(get_current_user_expenses(db, A))
        /\ last.op = "get_current_user_expenses" =>
              \A r \in Range(last.ret) : r.user_id = <<last.args[1]>>

\* a list was returned to one owner while another owner's rows are stored
C1_Witness ==
    /\ last.op = "get_current_user_expenses"
    /\ Len(last.ret) > 0
    /\ \E r \in Range(db.expenses) : r.user_id # <<last.args[1]>>

\* rows of database d that carry both this id and this owner
RowsMatching(d, expense_id, user_id) ==
    {r \in Range(d.expenses) : r.id = expense_id /\ r.user_id = <<user_id>>}

\* C2: delete_expense removes exactly the row with that id and that owner,
\* returns True exactly when a row was removed, and when no such row exists
\* (unknown id or another owner's id alike) returns False and leaves the
\* database as it was.
C2_DeleteOnlyOwn ==
    last.op = "delete_expense" =>
        LET gone == RowsMatching(last.pre, last.args[1], last.args[2])
        IN  /\ db = [last.pre EXCEPT !.expenses = SelectSeq(@, LAMBDA r : r \notin gone)]
            /\ Cardinality(gone) <= 1
            /\ last.ret = (gone # {})
            /\ last.ret = (db.expenses # last.pre.expenses)
            /\ (gone = {}) => (last.ret = FALSE /\ db = last.pre)

\* a delete aimed at another owner's existing row
C2_Witness ==
    /\ last.op = "delete_expense"
    /\ last.ret = FALSE
    /\ \E r \in Range(db.expenses) : r.id = last.args[1] /\ r.user_id # <<last.args[2]>>

\* t is s without its leading and trailing whitespace
IsTrimOf(t, s) ==
    \E i \in 1..(Len(s) + 1) : \E j \in (i - 1)..Len(s) :
        /\ t = SubSeq(s, i, j)
        /\ \A k \in (1..(i - 1)) \cup ((j + 1)..Len(s)) : s[k] \in Whitespace
        /\ j >= i => (s[i] \notin Whitespace /\ s[j] \notin Whitespace)

\* what an add_expense that returned did to the lists, given how the text
\* fields of the new row relate to the submitted ones
AddedOneRow(SameText(_, _)) ==
    (last.op = "add_expense" /\ last.ret = "ok") =>
        LET in == last.args[1]
            owner == last.args[2]
            before == get_current_user_expenses(last.pre, owner)
            after == get_current_user_expenses(db, owner)
            fresh == {r \in Range(after) : r \notin Range(before)}
        IN  /\ Len(after) = Len(before) + 1
            /\ Range(before) \subseteq Range(after)
            /\ Cardinality(fresh) = 1
            /\ \A r \in fresh :
                  /\ r.id \notin ExpenseIds(last.pre)
                  /\ SameText(r.category, in.category)
                  /\ r.amount = in.amount
                  /\ r.date = in.date
                  /\ SameText(r.description, in.description)
                  /\ r.user_id = <<owner>>
            /\ Cardinality(ExpenseIds(db)) = Len(db.expenses)
            /\ \A other \in OwnerIds \ {owner} :
                  get_current_user_expenses(db, other)
                      = get_current_user_expenses(last.pre, other)

\* C3 as stated: after add_expense the owner's list has exactly one more row,
\* carrying the submitted fields; ids stay distinct (no deduplication) and no
\* other owner's list changes.
C3_AddStoresFieldsAsGiven == AddedOneRow(LAMBDA stored, given : stored = given)

\* C3 amended: as above, but category and description are stored with their
\* leading and trailing whitespace removed.
C3_AddStoresTrimmedFields == AddedOneRow(LAMBDA stored, given : IsTrimOf(stored, given))

\* the same padded fields added twice for one owner: two rows, two ids
C3_Witness ==
    /\ last.op = "add_expense"
    /\ last.ret = "ok"
    /\ last.args[1].description # strip(last.args[1].description)
    /\ \E r1 \in Range(db.expenses) : \E r2 \in Range(db.expenses) :
          /\ r1.id # r2.id
          /\ r2.id = db.seq.expenses
          /\ [r1 EXCEPT !.id = 0] = [r2 EXCEPT !.id = 0]

\* C4: a delete_expense call that directly follows a delete_expense call with
\* the same arguments returns False and leaves the database unchanged.
C4_DeleteIdempotent ==
    [][(/\ last.op = "delete_expense"
        /\ last'.op = "delete_expense"
        /\ last'.args = last.args)
       => (last'.ret = FALSE /\ db' = db)]_vars

\* a delete repeated with the arguments of a delete that removed the row
C4_Witness ==
    /\ last.op = "delete_expense"
    /\ last.args \in removed
    /\ last.ret = FALSE
    /\ db = last.pre

UsernameTaken(d, username) == \E u \in Range(d.users) : u.username = username

\* C5: create_user returns True and appends one user when the username is
\* free, returns False and changes nothing when it is taken; no two users
\* ever share a username.
C5_UniqueUsernames ==
    /\ \A i \in 1..Len(db.users) : \A j \in 1..Len(db.users) :
          db.users[i].username = db.users[j].username => i = j
    /\ last.op = "create_user" =>
          IF UsernameTaken(last.pre, last.args.username)
          THEN last.ret = FALSE /\ db = last.pre
          ELSE /\ last.ret = TRUE
               /\ Len(db.users) = Len(last.pre.users) + 1
               /\ SubSeq(db.users, 1, Len(last.pre.users)) = last.pre.users
               /\ db.users[Len(db.users)].username = last.args.username
               /\ db.users[Len(db.users)].id \notin UserIds(last.pre)
               /\ db.expenses = last.pre.expenses

\* a registration refused because the name is taken
C5_Witness ==
    /\ last.op = "create_user"
    /\ last.ret = FALSE
    /\ UsernameTaken(db, last.args.username)

\* digests of the passwords, as stored by a registration
Sha256Of(password) ==
    CASE password = "secret1" ->
           "5b11618c2e44027877d0cd0921ed166b9f176f50587fc91e7534dd2946db77d6"
      [] password = "secret2" ->
           "35224d0d3465d74e855f8d69a136e79c744ea35a675d3393360a327cbf6359a2"
      [] password = "hunter2" ->
           "f52fbd32b2b3b86ff88ef6c490628285f482af15ddcb29541f94bcf526a3f6c7"

\* C6: authenticate_user returns the id of the user of that name exactly when
\* the digest of the password is the stored one; an unknown name and a wrong
\* password both give None; the database is not changed.
C6_AuthenticateExact ==
    /\ \A username \in LoginNames : \A password \in LoginPasswords :
          LET ret == authenticate_user(db, username, password)
              hits == {u \in Range(db.users) :
                          /\ u.username = username
                          /\ u.password_hash = Sha256Of(password)}
          IN  IF hits = {} THEN ret = None
              ELSE \A u \in hits : ret = <<u.id>>
    /\ last.op = "authenticate_user" =>
          /\ db = last.pre
          /\ last.ret = authenticate_user(last.pre, last.args[1], last.args[2])
          /\ last.ret # None =>
                \E u \in Range(db.users) :
                    /\ last.ret = <<u.id>>
                    /\ u.username = last.args[1]
                    /\ u.password_hash = Sha256Of(last.args[2])

\* a registered name with a wrong password is answered None, and so would an
\* unregistered name be
C6_Witness ==
    /\ last.op = "authenticate_user"
    /\ last.ret = None
    /\ UsernameTaken(db, last.args[1])
    /\ authenticate_user(db, "ghost", last.args[2]) = None
    /\ \E password \in LoginPasswords :
          authenticate_user(db, last.args[1], password) # None

\* this step is the commit of the call of session s
Commits(s) == calls[s].pc = "executed" /\ calls'[s].pc = "returning"

\* the database has both tables, the user_id column and no ownerless row
Migrated(d) ==
    /\ SchemaReady(d)
    /\ \A r \in Range(d.expenses) : r.user_id # NULL

\* this step is a statement of the init_db() call of session s
InitDbStep(s) ==
    /\ calls[s].op = "init_db"
    /\ Busy(s)
    /\ calls'[s].pc # calls[s].pc

\* C7: running init_db twice gives what running it once gives, from every
\* database the sessions can leave behind; on a migrated database init_db
\* changes nothing, neither as a whole nor by any of its statements, also
\* when the calls of another session run in between.
C7_InitDbIdempotent ==
    /\ [](/\ init_db(init_db(db)) = init_db(db)
          /\ Migrated(init_db(db))
          /\ Migrated(db) => init_db(db) = db)
    /\ [][\A s \in Sessions :
             InitDbStep(s) =>
                 /\ Migrated(db) => db' = db
                 /\ calls[s].loaded => Migrated(db)
                 /\ Commits(s) => db' = init_db(db)]_vars

\* init_db run again by a session, up to its commit, on a database that holds
\* users and an expense of a user other than user 1
C7_Witness ==
    \E s \in Sessions :
        /\ calls[s].op = "init_db"
        /\ calls[s].loaded
        /\ calls[s].pc = "returning"
        /\ ~calls[s].raised
        /\ Len(db.users) > 1
        /\ \E r \in Range(db.expenses) : r.user_id # <<DefaultUserId>>

\* ids of the rows of d that have no owner
Orphans(d) ==
    IF "user_id" \in d.columns
    THEN {r.id : r \in {x \in Range(d.expenses) : x.user_id = NULL}}
    ELSE ExpenseIds(d)

\* C8: init_db gives the ownerless expenses to user 1 when a user with id 1
\* exists, and deletes them otherwise (stated of the commit of init_db's
\* UPDATE, the one statement of init_db that touches rows).
C8_OrphansAssignedOrDeleted ==
    [][\A s \in Sessions :
          (Commits(s) /\ calls[s].op = "init_db") =>
              IF DefaultUserId \in UserIds(db)
              THEN \A id \in Orphans(db) :
                      \E r \in Range(db'.expenses) :
                          r.id = id /\ r.user_id = <<DefaultUserId>>
              ELSE \A id \in Orphans(db) : id \notin ExpenseIds(db')]_vars

\* init_db() has returned in some session
InitDbCompleted == \E s \in Sessions : calls[s].loaded

\* C9: once init_db has run, every expense has an owner and the owner is the
\* id of a user.
C9_EveryExpenseOwned ==
    InitDbCompleted =>
        \A r \in Range(db.expenses) :
            /\ r.user_id # NULL
            /\ \E id \in UserIds(db) : r.user_id = <<id>>

\* C10: no stored amount is negative; add_expense with a negative amount
\* raises and leaves the database as it was, and an accepted amount is stored
\* as given.
C10_AmountNonNegative ==
    /\ \A r \in Range(db.expenses) : r.amount >= 0
    /\ last.op = "add_expense" =>
          IF last.args[1].amount < 0
          THEN last.ret = "raised" /\ db = last.pre
          ELSE /\ last.ret = "ok"
               /\ db.expenses[Len(db.expenses)].amount = last.args[1].amount

\* a negative amount was submitted while rows are stored
C10_Witness ==
    /\ last.op = "add_expense"
    /\ last.args[1].amount < 0
    /\ last.ret = "raised"
    /\ Len(db.expenses) > 0

\* the stored rows of one owner
MyRows(d, user_id) == {r \in Range(d.expenses) : r.user_id = <<user_id>>}

RECURSIVE SumOver(_)
SumOver(rows) ==
    IF rows = {} THEN 0
    ELSE LET r == CHOOSE x \in rows : TRUE
         IN  r.amount + SumOver(rows \ {r})

\* C12: get_expense_summary is None for an owner without expenses; otherwise
\* total_expenses is the sum of the owner's amounts, expense_count their
\* number, largest_expense their maximum and monthly_expenses the sum over the
\* expenses dated in the month and year of the reference instant; one expense
\* of 100 dated today gives 100 for total, average, largest and month, count 1.
C12_SummaryTotals ==
    last.op = "get_expense_summary" =>
        LET today == last.args[2]
            mine == MyRows(db, last.args[1])
            month == {r \in mine :
                         SubSeq(r.date, 1, 7) = SubSeq(isoformat(today.date), 1, 7)}
        IN  /\ db = last.pre
            /\ IF mine = {} THEN last.ret = None
               ELSE /\ last.ret # None
                    /\ LET s == last.ret[1]
                       IN  /\ s.total_expenses = SumOver(mine)
                           /\ s.expense_count = Cardinality(mine)
                           /\ \E r \in mine : r.amount = s.largest_expense
                           /\ \A r \in mine : r.amount <= s.largest_expense
                           /\ s.monthly_expenses = SumOver(month)
                           /\ s.average_expense.num = SumOver(mine)
                           /\ s.average_expense.den = Cardinality(mine)
                           /\ (\A r \in mine : /\ mine = {r}
                                                /\ r.amount = 100
                                                /\ r.date = isoformat(today.date))
                              => /\ s.total_expenses = 100
                                 /\ s.average_expense.num = 100 * s.average_expense.den
                                 /\ s.largest_expense = 100
                                 /\ s.expense_count = 1
                                 /\ s.monthly_expenses = 100

\* the summary of an owner whose only expense is 100, dated today, while the
\* other owner has expenses too
C12_Witness ==
    /\ last.op = "get_expense_summary"
    /\ last.ret # None
    /\ last.ret[1].total_expenses = 100
    /\ last.ret[1].expense_count = 1
    /\ last.ret[1].monthly_expenses = 100
    /\ \A r \in MyRows(db, last.args[1]) : r.date = isoformat(last.args[2].date)
    /\ \E r \in Range(db.expenses) : r.user_id # <<last.args[1]>>

\* the window sums of the latest summary are the sums over the owner's rows
\* that InWindow(day of the row, reference instant, n) picks
WindowSums(InWindow(_, _, _)) ==
    (last.op = "get_expense_summary" /\ last.ret # None) =>
        LET today == last.args[2]
            mine == MyRows(db, last.args[1])
            window(n) == {r \in mine : InWindow(toordinal(to_datetime(r.date)), today, n)}
        IN  /\ last.ret[1].last_30_days = SumOver(window(30))
            /\ last.ret[1].last_7_days = SumOver(window(7))

\* C13 as stated: last_30_days and last_7_days sum the expenses dated within
\* the trailing N days, lower bound inclusive and compared by date only: dated
\* N days before the reference date is in, N+1 days before is out, whatever
\* the time of day.
C13_WindowByDate ==
    WindowSums(LAMBDA day, today, n :
                   /\ day >= toordinal(today.date) - n
                   /\ day <= toordinal(today.date))

\* C13 amended: the sums take the expenses whose date, as a timestamp at
\* 00:00, is not before the reference instant minus N days, with no upper
\* bound: dated N days before the reference date is in only when the instant
\* is midnight sharp, any later date (a future one too) is in, N+1 days
\* before is out.
C13_WindowByInstant ==
    WindowSums(LAMBDA day, today, n :
                   \/ day > toordinal(today.date) - n
                   \/ day = toordinal(today.date) - n /\ today.time = Midnight)

\* a summary taken in the afternoon for an owner with expenses dated exactly
\* 30 and exactly 7 days before: the first is left out of last_30_days, the
\* second out of last_7_days
C13_Witness ==
    /\ last.op = "get_expense_summary"
    /\ last.args[2].time # Midnight
    /\ \E r \in MyRows(db, last.args[1]) : r.date = "2024-02-09"
    /\ \E r \in MyRows(db, last.args[1]) : r.date = "2024-03-03"
    /\ last.ret # None
    /\ last.ret[1].last_30_days
          = SumOver({r \in MyRows(db, last.args[1]) : r.date # "2024-02-09"})
    /\ last.ret[1].last_7_days = 0

\* C14: get_current_user_expenses returns the owner's expenses, each once,
\* latest date first, and expenses of one date in the order of their ids.
C14_NewestFirstThenById ==
    SchemaReady(db) =>
        /\ \A user_id \in OwnerIds :
              LET df == get_current_user_expenses(db, user_id)
              IN  /\ Len(df) = Cardinality(MyRows(db, user_id))
                  /\ IdsOf(df) = {r.id : r \in MyRows(db, user_id)}
                  /\ \A i \in 1..Len(df) : \A j \in (i + 1)..Len(df) :
                        \/ toordinal(df[i].date) > toordinal(df[j].date)
                        \/ /\ df[i].date = df[j].date
                           /\ df[i].id < df[j].id
        /\ last.op = "get_current_user_expenses" =>
              last.ret = get_current_user_expenses(last.pre, last.args[1])

\* a returned list in which an older expense was added between two expenses
\* of one later date
C14_Witness ==
    /\ last.op = "get_current_user_expenses"
    /\ Len(last.ret) = 3
    /\ last.ret[1].date = last.ret[2].date
    /\ last.ret[2].date # last.ret[3].date
    /\ last.ret[1].id < last.ret[3].id
    /\ last.ret[3].id < last.ret[2].id

\* the latest run of the script called this storage function
Made(e, op) == \E i \in 1..Len(e.calls) : e.calls[i].op = op

\* form values beyond those the widgets can deliver, for the decisions alone
AnyCategories ==
    {<<>>, Chars("  "), <<11>>, <<5760>>, <<31, 12288, 32>>, <<8232, 8195>>,
     Chars("Food"), <<133>> \o Chars("Rent ")}

AnyAmounts == {-1, 0, 45, 100}

AnyTexts == {"", "alice", "abc12", "secret1", "secret2"}

\* this run left the users, the expenses and the identity of session s alone
WroteNothing(s) ==
    /\ db'.users = db.users
    /\ db'.expenses = db.expenses
    /\ ui'[s].user_id = ui[s].user_id

\* C11: the add-expense form calls add_expense only for a non-empty category
\* and an amount > 0; the register form calls create_user only for non-empty
\* username and password, a matching confirmation and at least 6 characters;
\* a submission that is rejected changes neither table nor the session identity.
C11_RejectedFormsWriteNothing ==
    /\ \A category \in AnyCategories : \A amount \in AnyAmounts :
          AddFormDecision(category, amount) = "add_expense"
              => (category # <<>> /\ amount > 0)
    /\ \A username \in AnyTexts : \A password \in AnyTexts : \A confirm \in AnyTexts :
          RegisterFormDecision(username, password, confirm) = "create_user"
              => /\ username # ""
                 /\ password # ""
                 /\ password = confirm
                 /\ Len(password) >= 6
    /\ [][/\ event'.kind = "add" =>
                /\ Made(event', "add_expense")
                      => (event'.form.category # <<>> /\ event'.form.amount > 0)
                /\ ~Made(event', "add_expense") => WroteNothing(event'.session)
                /\ event'.form.amount <= 0 => ~Made(event', "add_expense")
          /\ event'.kind = "register" =>
                /\ Made(event', "create_user")
                      => /\ event'.form.username # ""
                         /\ event'.form.password # ""
                         /\ event'.form.password = event'.form.confirm_password
                         /\ Len(event'.form.password) >= 6
                /\ ~Made(event', "create_user") => WroteNothing(event'.session)
                /\ event'.form.password # event'.form.confirm_password
                      => ~Made(event', "create_user")]_vars

\* an expense form with amount 0 was turned down while a user is signed in
\* and an expense is stored
C11_Witness ==
    /\ event.kind = "add"
    /\ event.form.amount = 0
    /\ ~Made(event, "add_expense")
    /\ ui[event.session].user_id # None
    /\ Len(db.expenses) > 0

ExpenseOps ==
    {"get_current_user_expenses", "get_expense_summary", "add_expense", "delete_expense"}

\* C16: a session's user_id is None when the session starts, becomes an id
\* only in a login run in which authenticate_user returned that id for the
\* submitted name, and becomes None again only by logout; every expense call
\* of a run is made while the session's user_id is an id and passes that id
\* as owner; a failed login and every registration leave user_id None.
C16_SessionGate ==
    [][\A s \in Sessions :
          /\ (~ui[s].open /\ ui'[s].open) => ui'[s].user_id = None
          /\ ~ui'[s].open => ui'[s].user_id = None
          /\ ui'[s].user_id # ui[s].user_id =>
                IF ui'[s].user_id # None
                THEN /\ ui[s].user_id = None
                     /\ event'.kind = "login"
                     /\ event'.session = s
                     /\ Made(event', "authenticate_user")
                     /\ last'.op = "authenticate_user"
                     /\ last'.args = <<event'.form.username, event'.form.password>>
                     /\ last'.ret = ui'[s].user_id
                     /\ \E u \in Range(db'.users) :
                           /\ <<u.id>> = ui'[s].user_id
                           /\ u.username = event'.form.username
                           /\ u.password_hash = Sha256Of(event'.form.password)
                ELSE event'.kind = "logout" /\ event'.session = s
          /\ event'.session = s =>
                /\ event'.kind = "logout" => ui'[s].user_id = None
                /\ event'.kind = "register" => ui'[s].user_id = None
                /\ (event'.kind = "login" /\ ~Made(event', "authenticate_user"))
                      => ui'[s].user_id = None
                /\ (event'.kind = "login" /\ Made(event', "authenticate_user")
                                          /\ last'.ret = None)
                      => ui'[s].user_id = None
                /\ event'.kind \in {"navigate", "add", "delete"} =>
                      /\ ui[s].user_id # None
                      /\ ui'[s].user_id = ui[s].user_id
                /\ event'.kind = "navigate" =>
                      /\ last'.op = "get_current_user_expenses"
                      /\ <<last'.args[1]>> = ui[s].user_id
                /\ (event'.kind = "add" /\ Made(event', "add_expense")) =>
                      /\ last'.op = "add_expense"
                      /\ <<last'.args[2]>> = ui[s].user_id
                /\ event'.kind = "delete" =>
                      /\ last'.op = "delete_expense"
                      /\ <<last'.args[2]>> = ui[s].user_id
                /\ \A i \in 1..Len(event'.calls) :
                      event'.calls[i].op \in ExpenseOps =>
                          /\ ui[s].user_id # None
                          /\ event'.calls[i].owner = ui[s].user_id]_vars

\* one session saved an expense as the user it signed in as, while the other
\* session is open and signed out
C16_Witness ==
    /\ event.kind = "add"
    /\ Made(event, "add_expense")
    /\ ui[event.session].user_id = <<last.args[2]>>
    /\ Len(db.expenses) > 0
    /\ db.expenses[Len(db.expenses)].user_id = ui[event.session].user_id
    /\ \E s \in Sessions \ {event.session} : ui[s].open /\ ui[s].user_id = None

\* the call of session s has returned or raised
Finished(s) == calls[s].pc \in {"idle", "handling"} /\ calls[s].op # "none"

\* C15: once a storage operation has returned or raised, the connection it
\* opened is closed, also when the statement raised and when create_user
\* returned False on a duplicate; a call that is over holds no write lock;
\* an operation that raised has committed nothing.
C15_ConnectionsReleased ==
    /\ [](\A s \in Sessions :
             /\ Finished(s) => (calls[s].conn = "closed" /\ lock # <<s>>)
             /\ calls[s].raised => ~calls[s].committed
             /\ (Finished(s) /\ calls[s].op = "create_user" /\ ~calls[s].committed)
                   => (calls[s].raised \/ calls[s].ret = FALSE))
    /\ [][\A s \in Sessions :
             \/ calls[s].pc # "raised" /\ calls'[s].pc = "raised"
             \/ calls[s].pc = "raised" /\ calls'[s].pc = "handling"
             => db' = db]_vars

\* the DELETE of the call of session s matches row r
Deletes(s, r) ==
    /\ calls[s].op = "delete_expense"
    /\ r.id = calls[s].args[1]
    /\ r.user_id = <<calls[s].args[2]>>

\* C17: of two delete_expense calls of different sessions with the same id
\* and owner at most one returns True, however their statements interleave;
\* once such a call has returned the row is absent; a commit of a delete
\* removes no row but the one with that id and owner, and no step of any
\* other call removes or alters a row that has an owner.
C17_ConcurrentDeletes ==
    /\ [](\A s \in Sessions : \A t \in Sessions \ {s} :
             (/\ Finished(s) /\ calls[s].op = "delete_expense" /\ ~calls[s].raised
              /\ Finished(t) /\ calls[t].op = "delete_expense" /\ ~calls[t].raised
              /\ calls[s].args = calls[t].args)
                 => ~(calls[s].ret /\ calls[t].ret))
    /\ [](\A s \in Sessions :
             (Finished(s) /\ calls[s].op = "delete_expense")
                 => \A i \in 1..Len(db.expenses) : ~Deletes(s, db.expenses[i]))
    /\ [][/\ SchemaReady(db) =>
                \A i \in 1..Len(db.expenses) :
                    db.expenses[i].user_id # NULL =>
                        \/ db.expenses[i] \in Range(db'.expenses)
                        \/ \E s \in Sessions : Commits(s) /\ Deletes(s, db.expenses[i])
          /\ \A s \in Sessions :
                (Commits(s) /\ calls[s].op = "delete_expense") =>
                    /\ db'.expenses =
                          SelectSeq(db.expenses, LAMBDA r : ~Deletes(s, r))
                    /\ db'.users = db.users
                    /\ calls'[s].ret = (Len(db'.expenses) < Len(db.expenses))]_vars

\* two sessions deleted the same expense of the same owner at the same time:
\* one got True, the other False, the row is gone and the other owner's row
\* is still there
C17_Witness ==
    \E s \in Sessions : \E t \in Sessions \ {s} :
        /\ Finished(s) /\ calls[s].op = "delete_expense"
        /\ Finished(t) /\ calls[t].op = "delete_expense"
        /\ calls[s].args = calls[t].args
        /\ t \in calls[s].overlapped
        /\ calls[s].ret = TRUE
        /\ calls[t].ret = FALSE
        /\ \A i \in 1..Len(db.expenses) : ~Deletes(s, db.expenses[i])
        /\ \E i \in 1..Len(db.expenses) :
              db.expenses[i].user_id # <<calls[s].args[2]>>

====
